---- MODULE Spec2Model ----
(***************************************************************************)
(* Model of router_starter.py: the Packet ordering, the QueueManager       *)
(* (enqueue / dequeue under fcfs, priority, rr, wfq) and the event loop of *)
(* main().                                                                 *)
(*                                                                         *)
(* Times are natural numbers (one unit = one quantum of the float clock).  *)
(* A packet is [id, arrival_time, flow_id, priority]: id stands for the    *)
(* Python object's identity (one object per input line); size and payload  *)
(* are carried but never read by the scheduler and are left out.           *)
(*                                                                         *)
(* Two specifications share the QueueManager operators:                    *)
(*   Spec    main(): parse + sort, then the while loop of lines 215-255    *)
(*   QMSpec  a client calling enqueue / dequeue in any interleaving        *)
(***************************************************************************)
EXTENDS Integers, Sequences, FiniteSets, TLC

\* ------------------------------------------------------------------ bounds
MaxPackets == 3      \* input lines of a run (Spec)
MaxCalls == 5        \* enqueue calls of a client (QMSpec)
MaxClientTime == 1   \* largest arrival time a client stamps on a packet
MaxTime == 2         \* largest arrival time
MaxInterval == 2     \* largest send interval
NumFlows == 3        \* flow ids are 1..NumFlows
MaxBurst == 4        \* packets of one burst of the feeder (BurstSpec)

\* ------------------------------------------------------- program constants
PriorityLevels == 4  \* the feeder's priorities are 0..3
None == 0            \* Python's None where a flow id or a packet id is expected

Policies == {"fcfs", "priority", "rr", "wfq"}

\* datagram_feeder.py, --policy by_flow: the priority of a flow's packets
ByFlowPriority(flow_id) == (flow_id - 1) % PriorityLevels

\* One input line, as the feeder writes it (by_flow priorities): no policy
\* reads both the flow id and the priority, so the pairing loses no behaviour.
Packet(id, arrival_time, flow_id) ==
    [id |-> id, arrival_time |-> arrival_time, flow_id |-> flow_id,
     priority |-> ByFlowPriority(flow_id)]

NoPacket == [id |-> None, arrival_time |-> 0, flow_id |-> None, priority |-> 0]

Times == 0..MaxTime
FlowIds == 1..NumFlows
Lines == Times \X FlowIds
ClientLines == (0..MaxClientTime) \X FlowIds

\* Packet.__lt__
PacketLt(self, other) ==
    IF self.priority # other.priority
    THEN self.priority < other.priority
    ELSE self.arrival_time < other.arrival_time

\* mutant of EntryLt: the heap entries pushed as (arrival_time, priority, pkt)
EntryLtArrivalFirst(a, b) ==
    IF a.arr # b.arr THEN a.arr < b.arr
    ELSE IF a.prio # b.prio THEN a.prio < b.prio
    ELSE IF a.pkt.id = b.pkt.id THEN FALSE
    ELSE PacketLt(a.pkt, b.pkt)

\* Python's tuple comparison of the heap entries (pkt.priority,
\* pkt.arrival_time, pkt): the first position where the entries differ
\* decides; two entries for the same object are equal.
EntryLt(a, b) ==
    IF a.prio # b.prio THEN a.prio < b.prio
    ELSE IF a.arr # b.arr THEN a.arr < b.arr
    ELSE IF a.pkt.id = b.pkt.id THEN FALSE
    ELSE PacketLt(a.pkt, b.pkt)

\* -------------------------------------------------------------------- heapq
\* positions are 0-based as in heapq; h[pos + 1] is heap[pos]
RECURSIVE SiftDown(_, _, _, _)
SiftDown(h, startpos, pos, newitem) ==
    IF pos > startpos
    THEN LET parentpos == (pos - 1) \div 2
             parent == h[parentpos + 1]
         IN IF EntryLt(newitem, parent)
            THEN SiftDown([h EXCEPT ![pos + 1] = parent], startpos, parentpos, newitem)
            ELSE [h EXCEPT ![pos + 1] = newitem]
    ELSE [h EXCEPT ![pos + 1] = newitem]

RECURSIVE SiftUpLoop(_, _, _)
\* the while loop of _siftup: bubbles the smaller child up until a leaf;
\* returns the heap and the leaf position
SiftUpLoop(h, pos, endpos) ==
    LET childpos == 2 * pos + 1
        rightpos == childpos + 1
    IN IF childpos < endpos
       THEN LET c == IF rightpos < endpos /\ ~EntryLt(h[childpos + 1], h[rightpos + 1])
                     THEN rightpos ELSE childpos
            IN SiftUpLoop([h EXCEPT ![pos + 1] = h[c + 1]], c, endpos)
       ELSE [heap |-> h, pos |-> pos]

SiftUp(h, pos) ==
    LET newitem == h[pos + 1]
        r == SiftUpLoop(h, pos, Len(h))
    IN SiftDown(r.heap, pos, r.pos, newitem)

HeapPush(h, item) == SiftDown(Append(h, item), 0, Len(h), item)

\* returns [heap, item]
HeapPop(h) ==
    LET lastelt == h[Len(h)]
        rest == SubSeq(h, 1, Len(h) - 1)
    IN IF rest # <<>>
       THEN [heap |-> SiftUp([rest EXCEPT ![1] = lastelt], 0), item |-> rest[1]]
       ELSE [heap |-> rest, item |-> lastelt]

\* ------------------------------------------------------------- QueueManager
\* mutant of NewQueueManager: the policy argument is ignored for the default
NewQueueManagerDefault(policy) ==
    [policy |-> "fcfs", queue |-> <<>>, heap |-> <<>>,
     flow_queues |-> <<>>, last_flow |-> None]

\* QueueManager.__init__ (weights and the WFQ clocks are never read again)
NewQueueManager(policy) ==
    [policy |-> policy, queue |-> <<>>, heap |-> <<>>,
     flow_queues |-> <<>>, last_flow |-> None]

\* defaultdict access self.flow_queues[fid]: a missing key reads as empty
FlowQueue(fq, fid) == IF fid \in DOMAIN fq THEN fq[fid] ELSE <<>>

\* self.flow_queues[fid].append(pkt), creating the key if missing
FlowAppend(fq, fid, pkt) ==
    [f \in DOMAIN fq \cup {fid} |->
        IF f = fid THEN Append(FlowQueue(fq, fid), pkt) ELSE fq[f]]

\* mutant of FlowDelete: the emptied flow's key is kept
FlowKeep(fq, fid) == fq

\* del self.flow_queues[fid]
FlowDelete(fq, fid) == [f \in DOMAIN fq \ {fid} |-> fq[f]]

\* QueueManager.enqueue
enqueue(q, pkt) ==
    IF q.policy = "fcfs"
    THEN [q EXCEPT !.queue = Append(@, pkt)]
    ELSE IF q.policy = "priority"
    THEN [q EXCEPT !.heap = HeapPush(@, [prio |-> pkt.priority,
                                         arr |-> pkt.arrival_time, pkt |-> pkt])]
    ELSE IF q.policy = "rr"
    THEN [q EXCEPT !.flow_queues = FlowAppend(@, pkt.flow_id, pkt)]
    ELSE q

\* sorted(self.flow_queues.keys())
RECURSIVE SortedSeq(_)
SortedSeq(S) ==
    IF S = {} THEN <<>>
    ELSE LET m == CHOOSE x \in S : \A y \in S : x <= y
         IN <<m>> \o SortedSeq(S \ {m})

\* flow_ids.index(x), 0-based
IndexOf(s, x) == (CHOOSE k \in 1..Len(s) : s[k] = x) - 1

\* any(self.flow_queues.values())
AnyFlow(fq) == \E f \in DOMAIN fq : fq[f] # <<>>

\* the for loop of the rr branch, from iteration j on
RECURSIVE RRScan(_, _, _, _)
RRScan(q, flow_ids, start_index, j) ==
    IF j >= Len(flow_ids)
    THEN [qm |-> q, pkt |-> NoPacket]
    ELSE LET index == (start_index + j) % Len(flow_ids)
             fid == flow_ids[index + 1]
         IN IF q.flow_queues[fid] # <<>>
            THEN LET pkt == Head(q.flow_queues[fid])
                     popped == [q.flow_queues EXCEPT ![fid] = Tail(@)]
                     fq == IF popped[fid] = <<>> THEN FlowDelete(popped, fid)
                           ELSE popped
                 IN [qm |-> [q EXCEPT !.flow_queues = fq, !.last_flow = fid],
                     pkt |-> pkt]
            ELSE RRScan(q, flow_ids, start_index, j + 1)

\* mutant of StartIndex: the scan always starts at the smallest flow id
StartIndexZero(q, flow_ids) == 0

\* where the rr scan starts
StartIndex(q, flow_ids) ==
    IF \E k \in 1..Len(flow_ids) : flow_ids[k] = q.last_flow
    THEN (IndexOf(flow_ids, q.last_flow) + 1) % Len(flow_ids)
    ELSE 0

\* mutant of dequeue: fcfs pops the newest packet (pop() for popleft())
dequeueNewest(q) ==
    IF q.policy = "fcfs"
    THEN IF q.queue # <<>>
         THEN [qm |-> [q EXCEPT !.queue = SubSeq(@, 1, Len(@) - 1)],
               pkt |-> q.queue[Len(q.queue)]]
         ELSE [qm |-> q, pkt |-> NoPacket]
    ELSE IF q.policy = "priority"
    THEN IF q.heap # <<>>
         THEN LET r == HeapPop(q.heap)
              IN [qm |-> [q EXCEPT !.heap = r.heap], pkt |-> r.item.pkt]
         ELSE [qm |-> q, pkt |-> NoPacket]
    ELSE IF q.policy = "rr"
    THEN IF ~AnyFlow(q.flow_queues)
         THEN [qm |-> q, pkt |-> NoPacket]
         ELSE LET flow_ids == SortedSeq(DOMAIN q.flow_queues)
              IN RRScan(q, flow_ids, StartIndex(q, flow_ids), 0)
    ELSE [qm |-> q, pkt |-> NoPacket]

\* mutant of dequeue: fcfs returns the first packet without removing it
dequeuePeek(q) ==
    IF q.policy = "fcfs"
    THEN IF q.queue # <<>>
         THEN [qm |-> q, pkt |-> Head(q.queue)]
         ELSE [qm |-> q, pkt |-> NoPacket]
    ELSE IF q.policy = "priority"
    THEN IF q.heap # <<>>
         THEN LET r == HeapPop(q.heap)
              IN [qm |-> [q EXCEPT !.heap = r.heap], pkt |-> r.item.pkt]
         ELSE [qm |-> q, pkt |-> NoPacket]
    ELSE IF q.policy = "rr"
    THEN IF ~AnyFlow(q.flow_queues)
         THEN [qm |-> q, pkt |-> NoPacket]
         ELSE LET flow_ids == SortedSeq(DOMAIN q.flow_queues)
              IN RRScan(q, flow_ids, StartIndex(q, flow_ids), 0)
    ELSE [qm |-> q, pkt |-> NoPacket]

\* QueueManager.dequeue: returns [qm, pkt], pkt = NoPacket for None
dequeue(q) ==
    IF q.policy = "fcfs"
    THEN IF q.queue # <<>>
         THEN [qm |-> [q EXCEPT !.queue = Tail(@)], pkt |-> Head(q.queue)]
         ELSE [qm |-> q, pkt |-> NoPacket]
    ELSE IF q.policy = "priority"
    THEN IF q.heap # <<>>
         THEN LET r == HeapPop(q.heap)
              IN [qm |-> [q EXCEPT !.heap = r.heap], pkt |-> r.item.pkt]
         ELSE [qm |-> q, pkt |-> NoPacket]
    ELSE IF q.policy = "rr"
    THEN IF ~AnyFlow(q.flow_queues)
         THEN [qm |-> q, pkt |-> NoPacket]
         ELSE LET flow_ids == SortedSeq(DOMAIN q.flow_queues)
              IN RRScan(q, flow_ids, StartIndex(q, flow_ids), 0)
    ELSE [qm |-> q, pkt |-> NoPacket]

\* ---------------------------------------------------------------- main()
\* mutant of InsertByArrival: a packet goes before those of its own timestamp
RECURSIVE InsertByArrivalBeforeTies(_, _)
InsertByArrivalBeforeTies(sorted, p) ==
    IF sorted = <<>> THEN <<p>>
    ELSE IF sorted[Len(sorted)].arrival_time < p.arrival_time
         THEN Append(sorted, p)
         ELSE Append(InsertByArrivalBeforeTies(SubSeq(sorted, 1, Len(sorted) - 1), p),
                     sorted[Len(sorted)])

\* packets.sort(key=lambda p: p.arrival_time): a stable sort
RECURSIVE InsertByArrival(_, _)
InsertByArrival(sorted, p) ==
    IF sorted = <<>> THEN <<p>>
    ELSE IF sorted[Len(sorted)].arrival_time <= p.arrival_time
         THEN Append(sorted, p)
         ELSE Append(InsertByArrival(SubSeq(sorted, 1, Len(sorted) - 1), p),
                     sorted[Len(sorted)])

\* mutant of SortByArrival: the input is left in the order it was read
Unsorted(s) == s

RECURSIVE SortByArrival(_)
SortByArrival(s) ==
    IF s = <<>> THEN <<>>
    ELSE InsertByArrival(SortByArrival(SubSeq(s, 1, Len(s) - 1)), s[Len(s)])

\* float("inf"): above every finite time of a run
Inf == MaxTime + (MaxPackets + MaxBurst + 1) * MaxInterval + 1

VARIABLES
    qm,              \* the QueueManager
    packets,         \* the parsed input, sorted by arrival time
    i,               \* index of the next packet to arrive (0-based)
    now,             \* the simulation clock
    next_send_time,  \* next time the router can send
    send_interval,   \* 1000.0 / args.output_rate
    args_policy,     \* args.policy, the policy selected on the command line
    pc,              \* "loop" | "done" in a run, "client" in QMSpec
    log              \* the events emitted so far: [ev, t, pkt]

vars == <<qm, packets, i, now, next_send_time, send_interval, args_policy, pc, log>>

Event(ev, t, pkt) == [ev |-> ev, t |-> t, pkt |-> pkt]

\* mutant of queues_empty: the rr branch looks at the fcfs store
queues_emptyWrongStore ==
    IF args_policy = "fcfs" THEN Len(qm.queue) = 0
    ELSE IF args_policy = "priority" THEN Len(qm.heap) = 0
    ELSE IF args_policy = "rr" THEN Len(qm.queue) = 0
    ELSE TRUE

\* queues_empty(): `args.policy in ("priority")` is a substring test on the
\* string "priority"; among the four policies only "priority" passes it
queues_empty ==
    IF args_policy = "fcfs" THEN Len(qm.queue) = 0
    ELSE IF args_policy = "priority" THEN Len(qm.heap) = 0
    ELSE IF args_policy = "rr" THEN ~AnyFlow(qm.flow_queues)
    ELSE TRUE

n == Len(packets)

next_arrival == IF i < n THEN packets[i + 1].arrival_time ELSE Inf

\* mutant of Init: the first send waits one send interval
InitFirstSendDelayed ==
    /\ \E policy \in Policies : args_policy = policy /\ qm = NewQueueManager(policy)
    /\ send_interval \in 1..MaxInterval
    /\ \E len \in 0..MaxPackets : \E lines \in [1..len -> Lines] :
          packets = SortByArrival([k \in 1..len |->
                                      Packet(k, lines[k][1], lines[k][2])])
    /\ i = 0
    /\ now = 0
    /\ next_send_time = send_interval
    /\ pc = "loop"
    /\ log = <<>>

\* the state when the while loop is first reached
Init ==
    /\ \E policy \in Policies : args_policy = policy /\ qm = NewQueueManager(policy)
    /\ send_interval \in 1..MaxInterval
    /\ \E len \in 0..MaxPackets : \E lines \in [1..len -> Lines] :
          packets = SortByArrival([k \in 1..len |->
                                      Packet(k, lines[k][1], lines[k][2])])
    /\ i = 0
    /\ now = 0
    /\ next_send_time = 0
    /\ pc = "loop"
    /\ log = <<>>

LoopCond == i < n \/ ~queues_empty

\* mutant of ArrivalFirst: an arrival at the send moment waits for the send
ArrivalFirstStrict == next_arrival < next_send_time

\* line 222: a packet arrives before (or at) the next send moment
ArrivalFirst == next_arrival <= next_send_time

\* lines 222-233: a packet arrives before the next send moment
Admit ==
    /\ pc = "loop" /\ LoopCond
    /\ ArrivalFirst
    /\ now' = next_arrival
    /\ qm' = enqueue(qm, packets[i + 1])
    /\ log' = Append(log, Event("ENQUEUE", next_arrival, packets[i + 1]))
    /\ i' = i + 1
    /\ UNCHANGED <<packets, next_send_time, send_interval, args_policy, pc>>

\* mutant of Send: the next send is not put one interval later
SendNoPacing ==
    /\ pc = "loop" /\ LoopCond
    /\ ~ArrivalFirst
    /\ LET r == dequeue(qm)
       IN /\ r.pkt # NoPacket
          /\ qm' = r.qm
          /\ now' = next_send_time
          /\ log' = Append(log, Event("SEND", next_send_time, r.pkt))
          /\ next_send_time' = next_send_time
    /\ UNCHANGED <<packets, i, send_interval, args_policy, pc>>

\* lines 236-247: time to send, and dequeue returned a packet
Send ==
    /\ pc = "loop" /\ LoopCond
    /\ ~ArrivalFirst
    /\ LET r == dequeue(qm)
       IN /\ r.pkt # NoPacket
          /\ qm' = r.qm
          /\ now' = next_send_time
          /\ log' = Append(log, Event("SEND", next_send_time, r.pkt))
          /\ next_send_time' = next_send_time + send_interval
    /\ UNCHANGED <<packets, i, send_interval, args_policy, pc>>

\* mutant of Idle: the send clock polls on, one interval at a time
IdlePoll ==
    /\ pc = "loop" /\ LoopCond
    /\ ~ArrivalFirst
    /\ LET r == dequeue(qm)
       IN /\ r.pkt = NoPacket
          /\ qm' = r.qm
          /\ now' = next_send_time
    /\ IF next_arrival # Inf
       THEN next_send_time' = next_send_time + send_interval /\ pc' = pc
       ELSE next_send_time' = next_send_time /\ pc' = "done"
    /\ UNCHANGED <<packets, i, send_interval, args_policy, log>>

\* mutant of Idle: the send clock is not moved to the next arrival
IdleNoJump ==
    /\ pc = "loop" /\ LoopCond
    /\ ~ArrivalFirst
    /\ LET r == dequeue(qm)
       IN /\ r.pkt = NoPacket
          /\ qm' = r.qm
          /\ now' = next_send_time
    /\ IF next_arrival # Inf
       THEN next_send_time' = next_send_time /\ pc' = pc
       ELSE next_send_time' = next_send_time /\ pc' = "done"
    /\ UNCHANGED <<packets, i, send_interval, args_policy, log>>

\* lines 248-255: dequeue returned None: jump to the next arrival, or break
\* when nothing is left to arrive
Idle ==
    /\ pc = "loop" /\ LoopCond
    /\ ~ArrivalFirst
    /\ LET r == dequeue(qm)
       IN /\ r.pkt = NoPacket
          /\ qm' = r.qm
          /\ now' = next_send_time
    /\ IF next_arrival # Inf
       THEN next_send_time' = next_arrival /\ pc' = pc
       ELSE next_send_time' = next_send_time /\ pc' = "done"
    /\ UNCHANGED <<packets, i, send_interval, args_policy, log>>

\* line 215 false: the loop ends, line 256
Exit ==
    /\ pc = "loop" /\ ~LoopCond
    /\ pc' = "done"
    /\ UNCHANGED <<qm, packets, i, now, next_send_time, send_interval, args_policy, log>>

Next == Admit \/ Send \/ Idle \/ Exit

Spec == Init /\ [][Next]_vars

\* the loop is one thread that always takes its next step
FairSpec == Spec /\ WF_vars(Next)

\* a run whose input is one burst of the feeder (--burst): every line of the
\* burst carries the same arrival time
InitBurst ==
    /\ \E policy \in Policies : args_policy = policy /\ qm = NewQueueManager(policy)
    /\ send_interval \in 1..MaxInterval
    /\ \E len \in 0..MaxBurst : \E t \in Times : \E flows \in [1..len -> FlowIds] :
          packets = SortByArrival([k \in 1..len |-> Packet(k, t, flows[k])])
    /\ i = 0
    /\ now = 0
    /\ next_send_time = 0
    /\ pc = "loop"
    /\ log = <<>>

BurstSpec == InitBurst /\ [][Next]_vars

\* ------------------------------------------------- a client of QueueManager
Enqueued(l) == SelectSeq(l, LAMBDA e : e.ev = "ENQUEUE")
Sent(l) == SelectSeq(l, LAMBDA e : e.ev = "SEND")

InitQM ==
    /\ \E policy \in Policies : args_policy = policy /\ qm = NewQueueManager(policy)
    /\ send_interval = 1
    /\ packets = <<>>
    /\ i = 0
    /\ now = 0
    /\ next_send_time = 0
    /\ pc = "client"
    /\ log = <<>>

\* the client passes a fresh packet to enqueue
CallEnqueue ==
    /\ pc = "client"
    /\ Len(Enqueued(log)) < MaxCalls
    /\ \E line \in ClientLines :
          LET pkt == Packet(Len(Enqueued(log)) + 1, line[1], line[2])
          IN /\ qm' = enqueue(qm, pkt)
             /\ log' = Append(log, Event("ENQUEUE", now, pkt))
    /\ UNCHANGED <<packets, i, now, next_send_time, send_interval, args_policy, pc>>

\* the client calls dequeue and gets a packet
CallDequeue ==
    /\ pc = "client"
    /\ LET r == dequeue(qm)
       IN /\ r.pkt # NoPacket
          /\ qm' = r.qm
          /\ log' = Append(log, Event("SEND", now, r.pkt))
    /\ UNCHANGED <<packets, i, now, next_send_time, send_interval, args_policy, pc>>

\* the client calls dequeue and gets None
CallDequeueNone ==
    /\ pc = "client"
    /\ LET r == dequeue(qm)
       IN /\ r.pkt = NoPacket
          /\ qm' = r.qm
    /\ UNCHANGED <<packets, i, now, next_send_time, send_interval, args_policy, pc, log>>

NextQM == CallEnqueue \/ CallDequeue \/ CallDequeueNone

QMSpec == InitQM /\ [][NextQM]_vars

\* ------------------------------------------------- the log, read on its own
Pkts(l) == [k \in 1..Len(l) |-> l[k].pkt]

Min(S) == CHOOSE x \in S : \A y \in S : x <= y

\* positions of the log's events of one kind
Positions(l, ev) == {k \in 1..Len(l) : l[k].ev = ev}

\* the packets enqueued and not yet sent after the first j events
ResidentAt(l, j) ==
    {l[k].pkt : k \in {k \in 1..j : l[k].ev = "ENQUEUE"}}
        \ {l[k].pkt : k \in {k \in 1..j : l[k].ev = "SEND"}}

\* the flows with a resident packet after the first j events
ActiveAt(l, j) == {p.flow_id : p \in ResidentAt(l, j)}

\* the flow of the latest SEND among the first j events, or None
LastServedAt(l, j) ==
    LET S == {k \in 1..j : l[k].ev = "SEND"}
    IN IF S = {} THEN None ELSE l[CHOOSE k \in S : \A m \in S : m <= k].pkt.flow_id

EnqueuePos(l, p) == Min({k \in 1..Len(l) : l[k].ev = "ENQUEUE" /\ l[k].pkt = p})

\* the earliest enqueued resident packet of flow f after the first j events
HeadAt(l, j, f) ==
    CHOOSE p \in ResidentAt(l, j) :
        /\ p.flow_id = f
        /\ \A o \in ResidentAt(l, j) :
              o.flow_id = f => EnqueuePos(l, p) <= EnqueuePos(l, o)

\* the next flow of A after f in ascending order, wrapping around
CyclicNext(f, A) ==
    IF \E g \in A : g > f THEN Min({g \in A : g > f}) ELSE Min(A)

\* a precedes b in the order (priority ascending, then arrival_time ascending)
Before(a, b) ==
    \/ a.priority < b.priority
    \/ a.priority = b.priority /\ a.arrival_time < b.arrival_time

RECURSIVE SumLen(_, _)
SumLen(fq, S) ==
    IF S = {} THEN 0
    ELSE LET f == CHOOSE x \in S : TRUE IN Len(fq[f]) + SumLen(fq, S \ {f})

\* the packets held by the stores of a QueueManager
ResidentCount(q) ==
    Len(q.queue) + Len(q.heap) + SumLen(q.flow_queues, DOMAIN q.flow_queues)

\* the active set is the same after each of the events a-1 .. b
StableWindow(l, a, b) == \A j \in (a - 1)..b : ActiveAt(l, j) = ActiveAt(l, a - 1)

\* ------------------------------------------------------------------ claims

\* C1: under fcfs the packets returned by dequeue are, in order, the packets
\* passed to enqueue: at any moment the enqueued sequence is the dequeued
\* sequence followed by the queue's content.
C1_FcfsOrder ==
    qm.policy = "fcfs" => Pkts(Enqueued(log)) = Pkts(Sent(log)) \o qm.queue

\* C1 witness: three packets came out, with an enqueue between two dequeues
C1_Witness ==
    /\ qm.policy = "fcfs"
    /\ Len(Sent(log)) >= 3
    /\ \E j \in 2..Len(log) - 1 :
          log[j - 1].ev = "SEND" /\ log[j].ev = "ENQUEUE" /\ log[j + 1].ev = "SEND"

\* C2: under priority every packet returned by dequeue is minimal among the
\* packets resident at that moment (no resident packet has a smaller priority,
\* nor the same priority and an earlier arrival), a dequeue on a non-empty
\* store returns a packet, and of two consecutive dequeues with no enqueue
\* between them the second never has the smaller priority.
C2_PriorityMinimal ==
    qm.policy = "priority" =>
        /\ \A j \in Positions(log, "SEND") :
              \A p \in ResidentAt(log, j - 1) : ~Before(p, log[j].pkt)
        /\ \A j \in Positions(log, "SEND") :
              (j > 1 /\ log[j - 1].ev = "SEND") =>
                  log[j - 1].pkt.priority <= log[j].pkt.priority
        /\ ResidentAt(log, Len(log)) # {} => dequeue(qm).pkt # NoPacket

\* C2 witness: a packet was returned ahead of a resident packet enqueued before
\* it, and two dequeues in a row returned different priorities
C2_Witness ==
    /\ qm.policy = "priority"
    /\ \E j \in Positions(log, "SEND") :
          \E p \in ResidentAt(log, j - 1) :
              EnqueuePos(log, p) < EnqueuePos(log, log[j].pkt)
    /\ \E j \in Positions(log, "SEND") :
          j > 1 /\ log[j - 1].ev = "SEND"
                /\ log[j - 1].pkt.priority < log[j].pkt.priority

\* C3: under rr, over a window in which the set of non-empty flows never
\* changes, each dequeue serves the next flow after the one served before it
\* in ascending cyclic order, and between two serves of one flow every other
\* flow of the set is served.
C3_RoundRobinFair ==
    qm.policy = "rr" =>
        \A a \in Positions(log, "SEND") : \A b \in Positions(log, "SEND") :
            (a < b /\ StableWindow(log, a, b)) =>
                LET A == ActiveAt(log, a - 1)
                    between == {k \in Positions(log, "SEND") : a < k /\ k < b}
                IN /\ between = {} =>
                         log[b].pkt.flow_id = CyclicNext(log[a].pkt.flow_id, A)
                   /\ log[a].pkt.flow_id = log[b].pkt.flow_id =>
                         A \ {log[a].pkt.flow_id}
                             \subseteq {log[k].pkt.flow_id : k \in between}

\* C3 witness: a window over two flows or more in which one flow is served
\* twice with the others served in between
C3_Witness ==
    /\ qm.policy = "rr"
    /\ \E a \in Positions(log, "SEND") : \E b \in Positions(log, "SEND") :
          /\ a < b
          /\ StableWindow(log, a, b)
          /\ Cardinality(ActiveAt(log, a - 1)) >= 2
          /\ log[a].pkt.flow_id = log[b].pkt.flow_id

\* C4: under rr each dequeue on a non-empty store serves the head packet of
\* the chosen flow: the next non-empty flow after the last served one in
\* ascending cyclic order when the last served flow is non-empty, the smallest
\* non-empty flow otherwise.
C4_RoundRobinChoice ==
    qm.policy = "rr" =>
        /\ \A j \in Positions(log, "SEND") :
              LET A == ActiveAt(log, j - 1)
                  last == LastServedAt(log, j - 1)
                  chosen == IF last \in A THEN CyclicNext(last, A) ELSE Min(A)
              IN log[j].pkt = HeadAt(log, j - 1, chosen)
        /\ ResidentAt(log, Len(log)) # {} => dequeue(qm).pkt # NoPacket

\* C4 witness: a dequeue after the last served flow emptied, with a larger
\* flow non-empty, and a dequeue that served a refilled flow's successor
C4_Witness ==
    /\ qm.policy = "rr"
    /\ \E j \in Positions(log, "SEND") :
          LET A == ActiveAt(log, j - 1)
              last == LastServedAt(log, j - 1)
          IN last # None /\ last \notin A /\ \E g \in A : g > last
    /\ \E j \in Positions(log, "SEND") :
          LET A == ActiveAt(log, j - 1)
              last == LastServedAt(log, j - 1)
          IN last \in A /\ Cardinality(A) >= 2 /\ last \notin ActiveAt(log, j - 2)

\* C7: the packets ever passed to enqueue are the packets ever returned by
\* dequeue plus the packets resident in the stores, under every policy.
C7_Conservation ==
    Len(Enqueued(log)) = Len(Sent(log)) + ResidentCount(qm)

\* C5: for fcfs, priority and rr, when the event loop has completed, the SEND
\* events, the ENQUEUE events and the input packets are equally many, and no
\* packet is resident in any store.
C5_RunConservation ==
    (pc = "done" /\ qm.policy \in {"fcfs", "priority", "rr"}) =>
        /\ Len(Sent(log)) = n
        /\ Len(Enqueued(log)) = n
        /\ ResidentCount(qm) = 0

\* C5 witness: a completed rr run of three packets that were not sent as
\* soon as they arrived
C5_Witness ==
    /\ pc = "done" /\ qm.policy = "rr" /\ n = 3
    /\ Len(Sent(log)) = 3
    /\ \E j \in 1..Len(log) - 1 : log[j].ev = "ENQUEUE" /\ log[j + 1].ev = "ENQUEUE"

\* C6: under each of the four policies the event loop reaches completion.
C6_Terminates == <>(pc = "done")

\* C6 witness: completed runs under wfq with input, after a jump of the send
\* clock
C6_Witness ==
    /\ pc = "done" /\ qm.policy = "wfq" /\ n = 3
    /\ next_send_time > 0

\* C8: no packet is enqueued twice, no packet is sent twice, and every SEND
\* of a packet comes after the ENQUEUE of that packet.
C8_Lifecycle ==
    LET enq == Positions(log, "ENQUEUE")
        snd == Positions(log, "SEND")
    IN /\ Cardinality({log[j].pkt.id : j \in enq}) = Cardinality(enq)
       /\ Cardinality({log[j].pkt.id : j \in snd}) = Cardinality(snd)
       /\ \A j \in snd : \E k \in 1..(j - 1) :
             log[k].ev = "ENQUEUE" /\ log[k].pkt = log[j].pkt

\* C8 witness: three packets sent, not in the order they were enqueued
C8_Witness ==
    /\ Len(Sent(log)) = 3
    /\ Pkts(Sent(log)) # Pkts(Enqueued(log))

\* C9: every assignment to the simulation clock is at least the clock's
\* previous value, and the timestamps of the log are non-decreasing.
C9_ClockMonotone ==
    [][/\ now' >= now
       /\ \A j \in 1..Len(log') : \A k \in 1..Len(log') :
             j <= k => log'[j].t <= log'[k].t]_vars

\* C9 witness: a log whose timestamps rise by an arrival after an idle jump
\* and by a send
C9_Witness ==
    /\ Len(log) >= 4
    /\ \E j \in 2..Len(log) :
          log[j].ev = "ENQUEUE" /\ log[j - 1].ev = "SEND" /\ log[j - 1].t < log[j].t
    /\ \E j \in 2..Len(log) :
          log[j].ev = "SEND" /\ log[j - 1].ev = "ENQUEUE" /\ log[j - 1].t < log[j].t
    /\ log[1].t > 0

\* Scenario C: priority, packet A (priority 2) arrives at 0, packet B
\* (priority 0) arrives at 1, the send interval is greater than 1
ScenarioC ==
    /\ qm.policy = "priority"
    /\ send_interval > 1
    /\ n = 2
    /\ packets[1].arrival_time = 0 /\ packets[1].priority = 2
    /\ packets[2].arrival_time = 1 /\ packets[2].priority = 0

\* C10 as stated: in Scenario C both packets are enqueued before the first
\* SEND, and the first SEND is B.
C10_ScenarioC_BFirst ==
    (ScenarioC /\ Positions(log, "SEND") # {}) =>
        LET first == Min(Positions(log, "SEND"))
        IN /\ log[first].pkt = packets[2]
           /\ Len(Enqueued(SubSeq(log, 1, first))) = 2

\* C10 amended: in Scenario C the first SEND is A, at time 0, before B is
\* enqueued; B is enqueued at time 1 and is the second SEND, one send interval
\* after the first.
C10_ScenarioC_AFirst ==
    ScenarioC =>
        /\ Len(log) >= 2 => log[1] = Event("ENQUEUE", 0, packets[1])
                            /\ log[2] = Event("SEND", 0, packets[1])
        /\ Len(log) >= 3 => log[3] = Event("ENQUEUE", 1, packets[2])
        /\ Len(log) >= 4 => log[4] = Event("SEND", send_interval, packets[2])
        /\ pc = "done" => Len(log) = 4

\* C10 witness: Scenario C has run to completion
C10_Witness == ScenarioC /\ pc = "done" /\ Len(Sent(log)) = 2

\* two packets tie: equal priority and equal arrival time
Tied(a, b) == a.priority = b.priority /\ a.arrival_time = b.arrival_time

\* C11: under priority, packets of equal priority and equal arrival time are
\* returned by dequeue in the order in which they were passed to enqueue.
C11_TieFifo ==
    qm.policy = "priority" =>
        \A j \in Positions(log, "SEND") : \A k \in Positions(log, "SEND") :
            (j < k /\ Tied(log[j].pkt, log[k].pkt)) =>
                EnqueuePos(log, log[j].pkt) < EnqueuePos(log, log[k].pkt)

\* Scenario A, in units of 5 ms: priority, three packets of one priority
\* arriving at 0, d and 2d, and a send interval of 2d (d = 1 is 0, 5, 10 ms
\* and an interval of 10 ms)
ScenarioA ==
    /\ qm.policy = "priority"
    /\ n = 3
    /\ packets[1].priority = packets[2].priority
    /\ packets[2].priority = packets[3].priority
    /\ packets[1].arrival_time = 0
    /\ packets[2].arrival_time >= 1
    /\ packets[3].arrival_time = 2 * packets[2].arrival_time
    /\ send_interval = 2 * packets[2].arrival_time

\* C12: in Scenario A the run emits exactly three SEND events, at 0, at one
\* send interval and at two send intervals, carrying the packets in arrival
\* order.
C12_ScenarioA ==
    ScenarioA =>
        /\ \A k \in 1..Len(Sent(log)) :
              /\ k <= 3
              /\ Sent(log)[k] = Event("SEND", (k - 1) * send_interval, packets[k])
        /\ pc = "done" => Len(Sent(log)) = 3

\* C12 witness: Scenario A has run to completion with its three SEND events
C12_Witness == ScenarioA /\ pc = "done" /\ Len(Sent(log)) = 3

\* Scenario B: rr, flows 1 and 2 submit two packets each, all arriving at 0
ScenarioB ==
    /\ qm.policy = "rr"
    /\ n = 4
    /\ \A k \in 1..n : packets[k].arrival_time = 0
    /\ Cardinality({k \in 1..n : packets[k].flow_id = 1}) = 2
    /\ Cardinality({k \in 1..n : packets[k].flow_id = 2}) = 2

\* C13: in Scenario B the four packets are enqueued before the first SEND and
\* the four SEND events serve the flows in the order 1, 2, 1, 2.
C13_ScenarioB ==
    ScenarioB =>
        /\ \A j \in 1..Len(log) : j <= 4 <=> log[j].ev = "ENQUEUE"
        /\ \A k \in 1..Len(Sent(log)) :
              /\ k <= 4
              /\ Sent(log)[k].pkt.flow_id = <<1, 2, 1, 2>>[k]
        /\ pc = "done" => Len(Sent(log)) = 4

\* C13 witness: Scenario B has run to completion, the input not grouped by flow
C13_Witness ==
    /\ ScenarioB /\ pc = "done" /\ Len(Sent(log)) = 4
    /\ packets[1].flow_id = 2

\* C14: with wfq selected dequeue returns None in every reachable state,
\* however many packets were passed to enqueue, and no SEND is ever logged.
C14_WfqNeverSends ==
    args_policy = "wfq" =>
        /\ dequeue(qm).pkt = NoPacket
        /\ Sent(log) = <<>>

\* C14 witness: wfq after three enqueue calls or more
C14_Witness ==
    /\ args_policy = "wfq"
    /\ Len(Enqueued(log)) >= 3
    /\ dequeue(qm).pkt = NoPacket

\* C15 as stated: with wfq selected and a packet in the input the event loop
\* never reaches completion.
C15_WfqStalls == (args_policy = "wfq" /\ n >= 1) => pc # "done"

\* C15 amended: the event loop reaches completion, and with wfq selected it
\* has then admitted every input packet and sent none.
C15_WfqCompletes ==
    <>(/\ pc = "done"
       /\ args_policy = "wfq" =>
             i = n /\ Len(Enqueued(log)) = n /\ Sent(log) = <<>>)

\* C15 witness: a completed wfq run whose input was not empty
C15_Witness ==
    /\ pc = "done" /\ args_policy = "wfq"
    /\ n >= 1 /\ Len(Enqueued(log)) = n /\ Sent(log) = <<>>

\* C16: whenever a send is attempted (dequeue is called) at time t, every
\* input packet whose arrival time is at most t has already been enqueued.
C16_ArrivalsBeforeSend ==
    [][(Send \/ Idle) =>
          /\ now' = next_send_time
          /\ \A k \in 1..n : packets[k].arrival_time <= now' => k <= i
          /\ \A k \in 1..n : packets[k].arrival_time <= now' =>
                \E j \in Positions(log, "ENQUEUE") : log[j].pkt = packets[k]]_vars

\* C16 witness: a packet arriving exactly at the scheduled send time was
\* enqueued right before that send
C16_Witness ==
    \E j \in 3..Len(log) :
        /\ log[j].ev = "SEND" /\ log[j - 1].ev = "ENQUEUE"
        /\ log[j - 1].t = log[j].t
        /\ \E m \in 1..(j - 2) :
              log[m].ev = "SEND" /\ log[m].t + send_interval = log[j].t

\* the ENQUEUE events of l are in arrival order, ties in input order
EnqueueOrder(l) ==
    \A j \in 1..Len(Enqueued(l)) : \A k \in 1..Len(Enqueued(l)) :
        j < k =>
            LET a == Enqueued(l)[j].pkt
                b == Enqueued(l)[k].pkt
            IN /\ a.arrival_time <= b.arrival_time
               /\ a.arrival_time = b.arrival_time => a.id < b.id

\* C17: whatever the input order, the ENQUEUE events occur in non-decreasing
\* arrival-time order, a loop iteration admits one packet at most, and packets
\* of one timestamp are enqueued in their input order.
C17_EnqueueOrder ==
    [][/\ i' \in {i, i + 1}
       /\ Len(Enqueued(log')) = Len(Enqueued(log)) + (i' - i)
       /\ EnqueueOrder(log')]_vars

\* C17 witness: an input that was not sorted, with two packets of one
\* timestamp, all enqueued
C17_Witness ==
    /\ Len(Enqueued(log)) = 3
    /\ \E j \in 1..2 : Enqueued(log)[j].pkt.id > Enqueued(log)[j + 1].pkt.id
    /\ \E j \in 1..2 :
          Enqueued(log)[j].pkt.arrival_time = Enqueued(log)[j + 1].pkt.arrival_time

\* C18: under rr, between two consecutive dequeues that serve one flow f,
\* every other flow that stayed non-empty over that stretch is served.
C18_NoPassOver ==
    qm.policy = "rr" =>
        \A a \in Positions(log, "SEND") : \A b \in Positions(log, "SEND") :
            LET f == log[a].pkt.flow_id
                between == {k \in Positions(log, "SEND") : a < k /\ k < b}
            IN (/\ a < b
                /\ log[b].pkt.flow_id = f
                /\ \A k \in between : log[k].pkt.flow_id # f) =>
                   \A g \in FlowIds \ {f} :
                       (\A j \in (a - 1)..b : g \in ActiveAt(log, j)) =>
                           \E k \in between : log[k].pkt.flow_id = g

\* C19: two consecutive SEND events are at least one send interval apart.
C19_Pacing ==
    LET sent == Sent(log)
    IN \A k \in 2..Len(sent) : sent[k].t - sent[k - 1].t >= send_interval

\* C19 witness: three SEND events, one gap of exactly the interval and one
\* longer gap
C19_Witness ==
    /\ Len(Sent(log)) = 3
    /\ \E k \in 2..3 : Sent(log)[k].t - Sent(log)[k - 1].t = send_interval
    /\ \E k \in 2..3 : Sent(log)[k].t - Sent(log)[k - 1].t > send_interval

Max(a, b) == IF a >= b THEN a ELSE b

\* C20: for fcfs, priority and rr the first SEND is at the first packet's
\* arrival time and the k-th SEND is at the later of the (k-1)-th SEND plus
\* the send interval and the arrival time of the k-th packet in arrival order.
C20_SendTimes ==
    qm.policy \in {"fcfs", "priority", "rr"} =>
        LET sent == Sent(log)
        IN \A k \in 1..Len(sent) :
              sent[k].t =
                  IF k = 1 THEN packets[1].arrival_time
                  ELSE Max(sent[k - 1].t + send_interval, packets[k].arrival_time)

\* C20 witness: three SEND events, one held back by the send interval and
\* one sent at its own arrival time after the router was idle
C20_Witness ==
    /\ qm.policy \in {"priority", "rr"}
    /\ Len(Sent(log)) = 3
    /\ \E k \in 2..3 : Sent(log)[k].t > packets[k].arrival_time
    /\ \E k \in 2..3 : Sent(log)[k].t > Sent(log)[k - 1].t + send_interval

====
